---- MODULE Spec2Model ----
(***************************************************************************)
(* Model of src/octoprint/job/__init__.py: the print job base class        *)
(* (Printjob), the local file job (LocalFilePrintjob) and the device       *)
(* resident job (SDFilePrintjob), with the protocol, the status timer and  *)
(* the listeners as environment.                                           *)
(***************************************************************************)
EXTENDS Integers, Sequences, FiniteSets, TLC

(* ------------------------------ bounds --------------------------------- *)
MaxFileLen == 2      \* bytes in the backing file of a local job
MaxPosition == 2     \* largest position / size an input may carry
MaxListeners == 2    \* length of the job's listener list
MaxTime == 1         \* clock readings 0..MaxTime
MaxLost == 1         \* lost_time arguments 0..MaxLost
MaxDispatches == 2   \* notify_listeners calls per behaviour
MaxProcessCalls == 2 \* process() calls per job instance
MaxQueries == 1      \* get_file_print_status queries per behaviour

(* ------------------------------ values --------------------------------- *)
\* Optional values (Python None) are sequences of length at most one.
None == <<>>
Some(x) == <<x>>

\* Results of an operation: a returned None, a returned text, a returned
\* number num/den, a raised exception, or the texts a generator has yielded.
RNone == [kind |-> "None", val |-> <<>>, num |-> 0, den |-> 1, items |-> <<>>]
RText(s) == [kind |-> "text", val |-> s, num |-> 0, den |-> 1, items |-> <<>>]
RNum(n, d) == [kind |-> "num", val |-> <<>>, num |-> n, den |-> d, items |-> <<>>]
RRaise(e) == [kind |-> "raise", val |-> <<e>>, num |-> 0, den |-> 1, items |-> <<>>]
RItems(xs) == [kind |-> "items", val |-> <<>>, num |-> 0, den |-> 1, items |-> xs]
\* A returned truth value (True is 1, False is 0).
RBool(b) == [kind |-> "bool", val |-> <<>>, num |-> IF b THEN 1 ELSE 0, den |-> 1,
             items |-> <<>>]

\* Equality of two numbers num/den (denominators are positive).
NumEq(a, b) == a.num * b.den = b.num * a.den

NoArg == [name |-> "", pos |-> 0, total |-> 0]
NoDispatch == [name |-> "", called |-> <<>>, exc |-> <<>>]

Variants == {"Printjob", "LocalFilePrintjob", "SDFilePrintjob"}
\* All job classes of the module, and the mixins a protocol may derive from.
Classes == Variants \cup {"LocalGcodeFilePrintjob", "LocalGcodeStreamjob"}
Mixins == {"FileStreamingProtocolMixin", "FileAwareProtocolMixin"}
Listeners == {"good", "bad", "deaf", "leaver", "recruiter"}
Filename == "job.gcode"
Names == {Filename, "other.gcode"}
Chars == {"g", "\n"}

RECURSIVE SeqsUpTo(_, _)
SeqsUpTo(S, n) ==
  IF n = 0 THEN {<<>>}
  ELSE LET prev == SeqsUpTo(S, n - 1)
       IN prev \cup {Append(s, x) : s \in {t \in prev : Len(t) = n - 1}, x \in S}

Files == SeqsUpTo(Chars, MaxFileLen)
\* The lists a local or device job is started with: none, one whose dispatch
\* completes, one whose first handler raises.
JobListenerLists == {<<>>, <<"good">>, <<"bad", "good">>}
\* RepeatedTimer threads are anonymous: how many are in each position.
NoTimers == [waiting |-> 0, firing |-> 0, stopped |-> 0]

VARIABLES
  python,         \* major version of the interpreter running the module
  variant,        \* class of the job instance
  supported_jobs, \* protocol.supported_jobs of the protocol the job is offered to
  mixins,         \* the mixin classes that protocol is an instance of
  listeners,      \* Printjob._listeners
  start,          \* Printjob._start
  protocol,       \* Printjob._protocol (None or bound)
  now,            \* reading of time.time()
  file,           \* bytes of the file at LocalFilePrintjob._path
  size,           \* LocalFilePrintjob._size / SDFilePrintjob._size
  handle,         \* LocalFilePrintjob._handle: None or the offset of the open file
  active,         \* SDFilePrintjob._active
  last_pos,       \* SDFilePrintjob._last_pos
  timers,         \* RepeatedTimer threads started by process(), by position
  proto_listeners,\* registrations of the job on the protocol
  printing,       \* the protocol has a file print running
  queries,        \* get_file_print_status calls issued so far
  pc,             \* position of the thread inside SDFilePrintjob.process
  proc_position,  \* position argument of the process() call in progress
  processCalls,   \* process() calls so far
  lastOp,         \* the operation that completed last
  lastArg,        \* its arguments
  lastResult,     \* what it returned or raised
  lastDispatch,   \* the last notify_listeners call: event, handlers invoked, exception
  dispatches,     \* notify_listeners calls so far
  doneNotified,   \* notify_listeners("on_job_done") calls so far
  jobDone,        \* the job has finished (end-of-file read / file-print-done handled)
  cancelledMidPoll\* cancel() has returned on a processing job whose timer was running

jobVars == <<listeners, start, protocol, size, handle, active, last_pos, timers>>
protoVars == <<proto_listeners, printing, queries>>
obsVars == <<lastDispatch, dispatches, doneNotified>>
vars == <<python, variant, supported_jobs, mixins, listeners, start, protocol, now, file, size, handle,
          active, last_pos, timers, proto_listeners, printing, queries, pc,
          proc_position, processCalls, lastOp, lastArg, lastResult,
          lastDispatch, dispatches, doneNotified, jobDone, cancelledMidPoll>>

(* --------------------------- listener dispatch -------------------------- *)
\* getattr(listener, name, None): "deaf" implements no handler.
HasHandler(l, name) == l # "deaf"
\* The handler of "bad" raises.
HandlerRaises(l, name) == l = "bad"

\* The logging statement of the except clause: ", ".join(list(args) + ...)
\* raises TypeError when args holds the job, and the outer format() with two
\* fields and one argument raises IndexError otherwise.
LogException(name) ==
  IF name = "on_job_failed" THEN "IndexError" ELSE "TypeError"

RECURSIVE RemoveFirst(_, _)
\* list.remove(x): drops the first occurrence of x.
RemoveFirst(ls, x) ==
  IF ls = <<>> THEN <<>>
  ELSE IF Head(ls) = x THEN Tail(ls)
  ELSE <<Head(ls)>> \o RemoveFirst(Tail(ls), x)

\* The listener list after the handler of l has run: the handler of "leaver"
\* calls job.unregister_listener(self), the handler of "recruiter" calls
\* job.register_listener on a "good" listener while the list has room.
HandlerEffect(l, ls) ==
  CASE l = "leaver" -> RemoveFirst(ls, l)
    [] l = "recruiter" -> IF Len(ls) < MaxListeners THEN Append(ls, "good") ELSE ls
    [] OTHER -> ls

RECURSIVE Dispatch(_, _, _, _)
\* for listener in self._listeners: the list iterator holds the index i of the
\* next element of the live list ls.
Dispatch(ls, i, name, called) ==
  IF i >= Len(ls)
  THEN [name |-> name, called |-> called, exc |-> None, after |-> ls]
  ELSE LET l == ls[i + 1] IN
       IF ~HasHandler(l, name) THEN Dispatch(ls, i + 1, name, called)
       ELSE IF HandlerRaises(l, name)
            THEN [name |-> name, called |-> Append(called, l),
                  exc |-> Some(LogException(name)), after |-> ls]
            ELSE Dispatch(HandlerEffect(l, ls), i + 1, name, Append(called, l))

notify_listeners(name) ==
  LET d == Dispatch(listeners, 0, name, <<>>)
  IN [name |-> d.name, called |-> d.called, exc |-> d.exc]

\* self._listeners once notify_listeners(name) has returned or raised.
listeners_after(name) == Dispatch(listeners, 0, name, <<>>).after

\* One notify_listeners(name) call with outcome d.
Notified(d) ==
  /\ dispatches < MaxDispatches
  /\ listeners' = listeners_after(d.name)
  /\ lastDispatch' = d
  /\ dispatches' = dispatches + 1
  /\ doneNotified' = IF d.name = "on_job_done" THEN doneNotified + 1 ELSE doneNotified

DispatchResult(d) == IF d.exc = None THEN RNone ELSE RRaise(d.exc[1])

(* ------------------------------ file access ----------------------------- *)
RECURSIVE LineEnd(_, _)
\* Offset just after the line that starts at offset p of f.
LineEnd(f, p) ==
  IF p >= Len(f) THEN Len(f)
  ELSE IF f[p + 1] = "\n" THEN p + 1 ELSE LineEnd(f, p + 1)

\* self._handle.readline() at offset p: the text up to and including the next
\* newline, empty at or beyond end-of-file.
ReadLine(f, p) ==
  IF p >= Len(f) THEN <<>> ELSE SubSeq(f, p + 1, LineEnd(f, p))

\* process_line of LocalFilePrintjob and its subclasses returns the line.
process_line(line) == line

(* ------------------------------- progress ------------------------------- *)
\* a / b on two ints: floor division under Python 2 (the module imports no
\* `division` from __future__), true division under Python 3.
Divide(a, b) ==
  IF b = 0 THEN RRaise("ZeroDivisionError")
  ELSE IF python = 2 THEN RNum(a \div b, 1) ELSE RNum(a, b)

get_progress ==
  CASE variant = "Printjob" -> RNum(0, 1)
    [] variant = "LocalFilePrintjob" ->
         IF handle = None THEN RNum(0, 1) ELSE Divide(handle[1], size[1])
    [] variant = "SDFilePrintjob" ->
         IF size = None \/ last_pos = None THEN RNone
         ELSE Divide(last_pos[1], size[1])

get_time_estimate(lost_time) ==
  IF start = None THEN RNone
  ELSE LET progress == get_progress IN
       IF progress.kind = "raise" THEN progress
       ELSE IF progress.kind = "None" \/ progress.num = 0 THEN RNone
       ELSE RNum((now - start[1] - lost_time) * progress.den, progress.num)

(* ------------------------------- Init ----------------------------------- *)
Init ==
  /\ python \in {2, 3}
  /\ variant \in Variants
  /\ supported_jobs = {variant}
  /\ mixins = Mixins
  /\ listeners \in (IF variant = "Printjob" THEN {<<>>} ELSE JobListenerLists)
  /\ start = None
  /\ protocol = None
  /\ now = 0
  /\ file \in (IF variant = "LocalFilePrintjob" THEN Files ELSE {<<>>})
  /\ size = IF variant = "LocalFilePrintjob" THEN Some(Len(file)) ELSE None
  /\ handle = None
  /\ active = FALSE
  /\ last_pos = None
  /\ timers = NoTimers
  /\ proto_listeners = 0
  /\ printing = FALSE
  /\ queries = 0
  /\ pc = "idle"
  /\ proc_position = 0
  /\ processCalls = 0
  /\ lastOp = "init"
  /\ lastArg = NoArg
  /\ lastResult = RNone
  /\ lastDispatch = NoDispatch
  /\ dispatches = 0
  /\ doneNotified = 0
  /\ jobDone = FALSE
  /\ cancelledMidPoll = FALSE

\* Record of the operation that has just completed.
Op(name, arg, result) ==
  /\ lastOp' = name
  /\ lastArg' = arg
  /\ lastResult' = result

constVars == <<python, variant, supported_jobs, mixins, file>>
sdVars == <<active, last_pos, timers, proto_listeners, printing, queries, pc,
            proc_position>>

(* --------------------------- Printjob (base) ---------------------------- *)
\* The dispatcher is exercised on the base class, whose listener list grows
\* and shrinks at any time; a local or device job starts with the list its
\* caller has registered before process().
DispatcherJob == variant = "Printjob"
\* The clock is read by get_time_estimate only, which the device job inherits
\* unchanged and which returns None on the base class whatever the time; it
\* advances for the local job.
ClockedJob == variant = "LocalFilePrintjob"

RegisterListener(l) ==
  /\ DispatcherJob
  /\ Len(listeners) < MaxListeners
  /\ listeners' = Append(listeners, l)
  /\ Op("register_listener", [NoArg EXCEPT !.name = l], RNone)
  /\ UNCHANGED <<constVars, sdVars, obsVars, start, protocol, now, size, handle,
                 processCalls, jobDone, cancelledMidPoll>>

InList(ls, x) == \E i \in 1..Len(ls) : ls[i] = x

UnregisterListener(l) ==
  /\ DispatcherJob
  /\ IF InList(listeners, l)
     THEN /\ listeners' = RemoveFirst(listeners, l)
          /\ Op("unregister_listener", [NoArg EXCEPT !.name = l], RNone)
     ELSE /\ listeners' = listeners
          /\ Op("unregister_listener", [NoArg EXCEPT !.name = l], RRaise("ValueError"))
  /\ UNCHANGED <<constVars, sdVars, obsVars, start, protocol, now, size, handle,
                 processCalls, jobDone, cancelledMidPoll>>

\* Printjob.process and LocalFilePrintjob.process, which run in the caller's
\* thread without a step another thread of the model could observe.
Process(position) ==
  /\ pc = "idle"
  /\ variant \in {"Printjob", "LocalFilePrintjob"}
  /\ processCalls < MaxProcessCalls
  /\ processCalls' = processCalls + 1
  /\ start' = Some(now)
  /\ protocol' = Some("protocol")
  /\ handle' = IF variant = "LocalFilePrintjob" THEN Some(position) ELSE handle
  /\ Op("process", [NoArg EXCEPT !.pos = position], RNone)
  /\ UNCHANGED <<constVars, sdVars, obsVars, listeners, now, size, jobDone,
                 cancelledMidPoll>>

TimerRunning == timers.waiting + timers.firing > 0

\* A cancel() that releases the file handle and notifies on_job_cancelled.
cancel_releasing ==
  /\ handle' = None
  /\ Notified(notify_listeners("on_job_cancelled"))
  /\ Op("cancel", NoArg, RNone)
  /\ UNCHANGED <<start, protocol, size, active, last_pos, timers, protoVars>>

\* Printjob.cancel is `pass`; no subclass overrides it.
cancel ==
  /\ UNCHANGED <<jobVars, protoVars, obsVars>>
  /\ Op("cancel", NoArg, RNone)

Cancel ==
  /\ pc = "idle"
  /\ cancel
  /\ cancelledMidPoll' = (cancelledMidPoll
                          \/ (variant = "SDFilePrintjob" /\ active /\ TimerRunning))
  /\ UNCHANGED <<constVars, now, pc, proc_position, processCalls, jobDone>>

\* Printjob.process_job_started: self.notify_listeners("on_job_started", self)
ProcessJobStarted ==
  /\ DispatcherJob
  /\ LET d == notify_listeners("on_job_started") IN
       /\ Notified(d)
       /\ Op("process_job_started", NoArg, DispatchResult(d))
  /\ UNCHANGED <<constVars, protoVars, start, protocol, size, handle, active,
                 last_pos, timers, now, pc, proc_position, processCalls,
                 jobDone, cancelledMidPoll>>

\* Printjob.process_job_cancelled: self.notify_listeners("on_job_cancelled", self)
ProcessJobCancelled ==
  /\ DispatcherJob
  /\ LET d == notify_listeners("on_job_cancelled") IN
       /\ Notified(d)
       /\ Op("process_job_cancelled", NoArg, DispatchResult(d))
  /\ UNCHANGED <<constVars, protoVars, start, protocol, size, handle, active,
                 last_pos, timers, now, pc, proc_position, processCalls,
                 jobDone, cancelledMidPoll>>

\* Printjob.process_job_failed: self.notify_listeners("on_job_failed")
ProcessJobFailed ==
  /\ DispatcherJob
  /\ LET d == notify_listeners("on_job_failed") IN
       /\ Notified(d)
       /\ Op("process_job_failed", NoArg, DispatchResult(d))
  /\ UNCHANGED <<constVars, protoVars, start, protocol, size, handle, active,
                 last_pos, timers, now, pc, proc_position, processCalls,
                 jobDone, cancelledMidPoll>>

\* time.time() advances.
Tick ==
  /\ ClockedJob
  /\ now < MaxTime
  /\ now' = now + 1
  /\ Op("tick", NoArg, RNone)
  /\ UNCHANGED <<constVars, jobVars, protoVars, obsVars, pc, proc_position,
                 processCalls, jobDone, cancelledMidPoll>>

(* -------------------------- LocalFilePrintjob --------------------------- *)
\* A close() that does not reset the handle reference.
close_keeping_handle == handle' = handle

\* LocalFilePrintjob.close: closes the file if open and sets _handle = None.
close == handle' = None

Close ==
  /\ variant = "LocalFilePrintjob"
  /\ close
  /\ Op("close", NoArg, RNone)
  /\ UNCHANGED <<constVars, sdVars, obsVars, listeners, start, protocol, now,
                 size, processCalls, jobDone, cancelledMidPoll>>

\* The one-character texts of a text, one after the other.
Characters(text) == [i \in 1..Len(text) |-> <<text[i]>>]

\* LocalFilePrintjob.get_content_generator, consumed to its end by the caller.
\* It opens its own view of the file with the keyword error="replace": a
\* bom_aware_open that hands the keyword on to the codec opener raises
\* TypeError (accepted = FALSE), one that tolerates it opens the file. The loop
\* `for line in f.readline()` then yields the characters of the first line.
GetContentGenerator(accepted) ==
  /\ variant = "LocalFilePrintjob"
  /\ Op("get_content_generator", NoArg,
        IF accepted THEN RItems(Characters(ReadLine(file, 0)))
        ELSE RRaise("TypeError"))
  /\ UNCHANGED <<constVars, jobVars, protoVars, obsVars, now, pc, proc_position,
                 processCalls, jobDone, cancelledMidPoll>>

\* Printjob.get_next (also the device job's): returns None.
GetNextBase ==
  /\ pc = "idle"
  /\ variant \in {"Printjob", "SDFilePrintjob"}
  /\ Op("get_next", NoArg, RNone)
  /\ UNCHANGED <<constVars, jobVars, protoVars, obsVars, now, pc, proc_position,
                 processCalls, jobDone, cancelledMidPoll>>

\* LocalFilePrintjob.get_next; ioerror: readline() raises.
GetNext(ioerror) ==
  /\ variant = "LocalFilePrintjob"
  /\ IF handle = None
     THEN \* "File {} is not open for reading" % self._path raises TypeError
          \* before the ValueError is constructed
          /\ ~ioerror
          /\ Op("get_next", NoArg, RRaise("TypeError"))
          /\ UNCHANGED <<handle, listeners, obsVars, jobDone>>
     ELSE IF ioerror
     THEN \* except Exception as e: self.close(); log; raise e
          /\ close
          /\ Op("get_next", [NoArg EXCEPT !.name = "IOError"], RRaise("IOError"))
          /\ UNCHANGED <<listeners, obsVars, jobDone>>
     ELSE LET line == ReadLine(file, handle[1]) IN
          IF line = <<>>
          THEN LET d == notify_listeners("on_job_done") IN
                 /\ Notified(d)
                 /\ close
                 /\ jobDone' = TRUE
                 /\ Op("get_next", NoArg,
                       IF d.exc = None THEN RText(process_line(line))
                       ELSE RRaise(d.exc[1]))
          ELSE /\ handle' = Some(handle[1] + Len(line))
               /\ Op("get_next", NoArg, RText(process_line(line)))
               /\ UNCHANGED <<listeners, obsVars, jobDone>>
  /\ UNCHANGED <<constVars, sdVars, start, protocol, now, size, processCalls,
                 cancelledMidPoll>>

(* ---------------------------- SDFilePrintjob ---------------------------- *)
\* SDFilePrintjob.process, one step per statement: the protocol thread and the
\* timer thread run between them.
\* Printjob.process(...) and self._protocol.register_listener(self)
ProcessRegister(position) ==
  /\ pc = "idle"
  /\ variant = "SDFilePrintjob"
  /\ processCalls < MaxProcessCalls
  /\ processCalls' = processCalls + 1
  /\ start' = Some(now)
  /\ protocol' = Some("protocol")
  /\ proto_listeners' = proto_listeners + 1
  /\ proc_position' = position
  /\ pc' = "start_file_print"
  /\ Op("process:register_listener", [NoArg EXCEPT !.pos = position], RNone)
  /\ UNCHANGED <<constVars, obsVars, listeners, now, size, handle,
                 active, last_pos, timers, printing, queries, jobDone,
                 cancelledMidPoll>>

\* self._protocol.start_file_print(self._filename, position=position)
ProcessStartFilePrint ==
  /\ pc = "start_file_print"
  /\ printing' = TRUE
  /\ pc' = "set_active"
  /\ Op("process:start_file_print", [NoArg EXCEPT !.pos = proc_position], RNone)
  /\ UNCHANGED <<constVars, obsVars, listeners, start, protocol, now, size,
                 handle, active, last_pos, timers, proto_listeners, queries,
                 proc_position, processCalls, jobDone, cancelledMidPoll>>

\* self._active = True
ProcessSetActive ==
  /\ pc = "set_active"
  /\ active' = TRUE
  /\ pc' = "set_last_pos"
  /\ Op("process:set_active", [NoArg EXCEPT !.pos = proc_position], RNone)
  /\ UNCHANGED <<constVars, obsVars, protoVars, listeners, start, protocol, now,
                 size, handle, last_pos, timers, proc_position, processCalls,
                 jobDone, cancelledMidPoll>>

\* self._last_pos = position
ProcessSetLastPos ==
  /\ pc = "set_last_pos"
  /\ last_pos' = Some(proc_position)
  /\ pc' = "start_timer"
  /\ Op("process:set_last_pos", [NoArg EXCEPT !.pos = proc_position], RNone)
  /\ UNCHANGED <<constVars, obsVars, protoVars, listeners, start, protocol, now,
                 size, handle, active, timers, proc_position, processCalls,
                 jobDone, cancelledMidPoll>>

\* self._status_timer = RepeatedTimer(...); self._status_timer.start()
ProcessStartTimer ==
  /\ pc = "start_timer"
  /\ timers' = [timers EXCEPT !.waiting = @ + 1]
  /\ pc' = "idle"
  /\ proc_position' = 0
  /\ Op("process", [NoArg EXCEPT !.pos = proc_position], RNone)
  /\ UNCHANGED <<constVars, obsVars, protoVars, listeners, start, protocol, now,
                 size, handle, active, last_pos, processCalls, jobDone,
                 cancelledMidPoll>>

\* An on_protocol_sd_status without the filename check.
on_protocol_sd_status_unchecked(name, pos, total) ==
  /\ last_pos' = Some(pos)
  /\ UNCHANGED <<listeners, start, protocol, size, handle, active, timers>>

\* The protocol calls back the listeners registered on it.
on_protocol_sd_status(name, pos, total) ==
  /\ last_pos' = IF name # Filename THEN last_pos ELSE Some(pos)
  /\ UNCHANGED <<listeners, start, protocol, size, handle, active, timers>>

OnProtocolSdStatus(name, pos, total) ==
  /\ proto_listeners > 0
  /\ on_protocol_sd_status(name, pos, total)
  /\ Op("on_protocol_sd_status", [name |-> name, pos |-> pos, total |-> 0], RNone)
  /\ UNCHANGED <<constVars, obsVars, protoVars, file, now, pc, proc_position,
                 processCalls, jobDone, cancelledMidPoll>>

OnProtocolFilePrintStarted(name, sz) ==
  /\ proto_listeners > 0
  /\ size' = IF name # Filename THEN size ELSE Some(sz)
  /\ Op("on_protocol_file_print_started", [name |-> name, pos |-> 0, total |-> sz], RNone)
  /\ UNCHANGED <<constVars, obsVars, protoVars, listeners, start, protocol, now,
                 handle, active, last_pos, timers, pc, proc_position,
                 processCalls, jobDone, cancelledMidPoll>>

\* The protocol reports the end of the print it is running.
OnProtocolFilePrintDone ==
  /\ proto_listeners > 0
  /\ printing
  /\ printing' = FALSE
  /\ active' = FALSE
  /\ proto_listeners' = proto_listeners - 1
  /\ LET d == notify_listeners("on_job_done") IN
       /\ Notified(d)
       /\ Op("on_protocol_file_print_done", NoArg, DispatchResult(d))
  /\ jobDone' = TRUE
  /\ UNCHANGED <<constVars, start, protocol, now, size, handle, last_pos,
                 timers, queries, pc, proc_position, processCalls,
                 cancelledMidPoll>>

\* A RepeatedTimer thread: evaluate condition=self._query_active ...
TimerCheck ==
  /\ timers.waiting > 0
  /\ timers' = IF active
               THEN [timers EXCEPT !.waiting = @ - 1, !.firing = @ + 1]
               ELSE [timers EXCEPT !.waiting = @ - 1, !.stopped = @ + 1]
  /\ Op("_query_active", NoArg, RNone)
  /\ UNCHANGED <<constVars, obsVars, protoVars, listeners, start, protocol, now,
                 size, handle, active, last_pos, pc, proc_position,
                 processCalls, jobDone, cancelledMidPoll>>

\* ... and call self._query_status, which queries the protocol.
TimerFire ==
  /\ timers.firing > 0
  /\ queries < MaxQueries
  /\ queries' = queries + 1
  /\ timers' = [timers EXCEPT !.firing = @ - 1, !.waiting = @ + 1]
  /\ Op("_query_status", NoArg, RNone)
  /\ UNCHANGED <<constVars, obsVars, listeners, start, protocol, now, size,
                 handle, active, last_pos, proto_listeners, printing, pc,
                 proc_position, processCalls, jobDone, cancelledMidPoll>>

(* ------------------------------- Next ----------------------------------- *)
Next ==
  \/ \E l \in Listeners : RegisterListener(l)
  \/ \E l \in Listeners : UnregisterListener(l)
  \/ \E position \in 0..MaxPosition : Process(position)
  \/ Cancel
  \/ ProcessJobStarted
  \/ ProcessJobCancelled
  \/ ProcessJobFailed
  \/ Tick
  \/ GetNextBase
  \/ \E ioerror \in BOOLEAN : GetNext(ioerror)
  \/ Close
  \/ \E accepted \in BOOLEAN : GetContentGenerator(accepted)
  \/ \E position \in 0..MaxPosition : ProcessRegister(position)
  \/ ProcessStartFilePrint
  \/ ProcessSetActive
  \/ ProcessSetLastPos
  \/ ProcessStartTimer
  \/ \E name \in Names, pos \in 0..MaxPosition, total \in {0, MaxPosition} :
       OnProtocolSdStatus(name, pos, total)
  \/ \E name \in Names, sz \in 0..MaxPosition : OnProtocolFilePrintStarted(name, sz)
  \/ OnProtocolFilePrintDone
  \/ TimerCheck
  \/ TimerFire

Spec == Init /\ [][Next]_vars

TypeOK ==
  /\ python \in {2, 3}
  /\ variant \in Variants
  /\ supported_jobs \subseteq Classes
  /\ mixins \subseteq Mixins
  /\ Len(listeners) <= MaxListeners
  /\ Len(start) <= 1 /\ Len(handle) <= 1 /\ Len(size) <= 1 /\ Len(last_pos) <= 1
  /\ now \in 0..MaxTime
  /\ active \in BOOLEAN
  /\ dispatches \in 0..MaxDispatches
  /\ processCalls \in 0..MaxProcessCalls

(* ----------------------------- can_process ------------------------------ *)
\* can_process(protocol) of the class of the job: Printjob returns False and
\* LocalFilePrintjob inherits it; the other classes test supported_jobs and
\* isinstance(protocol, <mixin>).
can_process ==
  CASE variant = "LocalGcodeFilePrintjob" ->
         "LocalGcodeFilePrintjob" \in supported_jobs
    [] variant = "LocalGcodeStreamjob" ->
         /\ "LocalGcodeStreamjob" \in supported_jobs
         /\ "FileStreamingProtocolMixin" \in mixins
    [] variant = "SDFilePrintjob" ->
         /\ "SDFilePrintjob" \in supported_jobs
         /\ "FileAwareProtocolMixin" \in mixins
    [] OTHER -> FALSE

CanProcess ==
  /\ Op("can_process", NoArg, RBool(can_process))
  /\ UNCHANGED <<constVars, jobVars, protoVars, obsVars, now, pc, proc_position,
                 processCalls, jobDone, cancelledMidPoll>>

\* A job of any class, as constructed, and a protocol of any capabilities.
InitCanProcess ==
  /\ python \in {2, 3}
  /\ variant \in Classes
  /\ supported_jobs \in SUBSET Classes
  /\ mixins \in SUBSET Mixins
  /\ listeners \in (IF variant = "Printjob" THEN {<<>>} ELSE JobListenerLists)
  /\ start = None
  /\ protocol = None
  /\ now = 0
  /\ file \in (IF variant \in {"Printjob", "SDFilePrintjob"} THEN {<<>>} ELSE Files)
  /\ size = IF variant \in {"Printjob", "SDFilePrintjob"} THEN None ELSE Some(Len(file))
  /\ handle = None
  /\ active = FALSE
  /\ last_pos = None
  /\ timers = NoTimers
  /\ proto_listeners = 0
  /\ printing = FALSE
  /\ queries = 0
  /\ pc = "idle"
  /\ proc_position = 0
  /\ processCalls = 0
  /\ lastOp = "init"
  /\ lastArg = NoArg
  /\ lastResult = RNone
  /\ lastDispatch = NoDispatch
  /\ dispatches = 0
  /\ doneNotified = 0
  /\ jobDone = FALSE
  /\ cancelledMidPoll = FALSE

NextCanProcess == CanProcess

SpecCanProcess == InitCanProcess /\ [][NextCanProcess]_vars

(* ------------------------------ properties ------------------------------ *)
RECURSIVE WithHandler(_, _)
\* The listeners of ls that implement a handler for the event.
WithHandler(ls, name) ==
  IF ls = <<>> THEN <<>>
  ELSE IF HasHandler(Head(ls), name)
       THEN <<Head(ls)>> \o WithHandler(Tail(ls), name)
       ELSE WithHandler(Tail(ls), name)

DispatchOps == {"process_job_started", "process_job_cancelled", "process_job_failed"}
IsLocal == variant = "LocalFilePrintjob"
IsSD == variant = "SDFilePrintjob"
\* The job holds the resources of a run.
Processing == (IsLocal /\ handle # None) \/ (IsSD /\ active)

\* C1: a notify_listeners call returns normally and has invoked the handler of
\* every listener that implements the event, whether or not one of them raised.
C1_ListenerIsolation ==
  lastOp \in DispatchOps =>
    /\ lastResult.kind # "raise"
    /\ lastDispatch.called = WithHandler(listeners, lastDispatch.name)

\* C2: a get_next() of a local job whose read succeeds returns the next line of
\* the file and advances past it; at end-of-file it returns None and closes the
\* handle; once the job is done every later call returns None, handle closed.
C2_GetNextInFileOrder ==
  [][(IsLocal /\ lastOp' = "get_next" /\ lastResult' # RRaise("IOError")) =>
       IF handle # None /\ ReadLine(file, handle[1]) # <<>>
       THEN /\ lastResult' = RText(ReadLine(file, handle[1]))
            /\ handle' = Some(handle[1] + Len(ReadLine(file, handle[1])))
       ELSE (handle # None \/ jobDone) => (lastResult' = RNone /\ handle' = None)
    ]_vars

\* C3: once a file-print-done callback has been handled the device job is not
\* active, is not registered on the protocol and on_job_done has been notified
\* exactly once.
C3_AfterFilePrintDone ==
  (IsSD /\ jobDone) => (~active /\ proto_listeners = 0 /\ doneNotified = 1)

\* C4: once cancel() has returned on a processing device job with a running
\* timer, the job is unregistered from the protocol and no further
\* get_file_print_status query is issued.
C4_CancelStopsPolling ==
  [][cancelledMidPoll' =>
       /\ proto_listeners' = 0
       /\ (cancelledMidPoll => queries' = queries)
    ]_vars

\* C5: cancel() on a processing job leaves it not processing, notifies
\* on_job_cancelled and releases the file handle, the timer and the protocol
\* registration.
C5_CancelReleases ==
  [][(lastOp' = "cancel" /\ Processing) =>
       /\ ~Processing'
       /\ dispatches' = dispatches + 1
       /\ lastDispatch'.name = "on_job_cancelled"
       /\ handle' = None
       /\ ~TimerRunning'
       /\ proto_listeners' = 0
    ]_vars

\* C6: cancel() on a job that has finished raises nothing, notifies no event
\* and changes no field of the job or of its registration on the protocol.
C6_CancelAfterFinish ==
  [][(lastOp' = "cancel" /\ jobDone) =>
       /\ lastResult'.kind # "raise"
       /\ UNCHANGED <<jobVars, protoVars, obsVars>>
    ]_vars

\* C6 witness: cancel() has returned on a finished job.
C6_Witness == lastOp = "cancel" /\ jobDone /\ ~Processing /\ lastResult = RNone

\* C7: a status callback for another file changes no field of the job; one
\* for the job's file sets last_pos to the given position and nothing else.
C7_StatusFrame ==
  [][lastOp' = "on_protocol_sd_status" =>
       /\ last_pos' = IF lastArg'.name = Filename THEN Some(lastArg'.pos) ELSE last_pos
       /\ UNCHANGED <<listeners, start, protocol, size, handle, active, timers>>
    ]_vars

\* C7 witness: a status callback for another file, carrying another position,
\* has been delivered to a job that knows its position.
C7_Witness ==
  /\ lastOp = "on_protocol_sd_status"
  /\ lastArg.name # Filename
  /\ last_pos # None
  /\ last_pos[1] # lastArg.pos

\* C8: a local job reports progress position / size right after
\* process(protocol, position) with position < size, and 0.0 while the handle
\* is not open.
C8_ProgressAfterProcess ==
  IsLocal =>
    /\ handle = None => get_progress = RNum(0, 1)
    /\ (lastOp = "process" /\ lastArg.pos < size[1]) =>
         /\ get_progress.kind = "num"
         /\ NumEq(get_progress, RNum(lastArg.pos, size[1]))

\* C9: get_progress() returns None or a number within [0, 1], and never raises.
C9_ProgressInRange ==
  \/ get_progress.kind = "None"
  \/ /\ get_progress.kind = "num"
     /\ 0 <= get_progress.num
     /\ get_progress.num <= get_progress.den

\* C10: get_time_estimate(lost_time) returns None when process() has not been
\* called or get_progress() is 0 or None, and (now - start - lost_time) /
\* progress otherwise; start is None before the first process().
C10_TimeEstimate ==
  /\ processCalls = 0 => start = None
  /\ \A lost_time \in 0..MaxLost :
       LET progress == get_progress
           estimate == get_time_estimate(lost_time)
       IN IF \/ start = None
             \/ progress.kind = "None"
             \/ (progress.kind = "num" /\ progress.num = 0)
          THEN estimate = RNone
          ELSE /\ progress.kind = "num"
               /\ estimate.kind = "num"
               /\ estimate.num * progress.num
                    = (now - start[1] - lost_time) * progress.den * estimate.den

\* C11: the status timer issues a get_file_print_status query only in a state
\* where active is true.
C11_QueryOnlyWhileActive ==
  [][queries' # queries => active]_vars

\* The job is in a processing run: open handle for a local job, active flag or
\* running timer for a device job.
InProcessing == (IsLocal /\ handle # None) \/ (IsSD /\ (active \/ TimerRunning))

\* C12: a job enters a processing run only if it has not finished and only
\* through its first process() call.
C12_TerminalStatesFinal ==
  [][(InProcessing' /\ ~InProcessing) => (~jobDone /\ processCalls' <= 1)]_vars

\* C13: a get_next() whose read fails raises that error to the caller with the
\* handle released (get_progress() is 0.0) and without notifying any event.
C13_ReadFailureReleases ==
  [][(IsLocal /\ lastOp' = "get_next" /\ lastArg'.name = "IOError") =>
       /\ lastResult' = RRaise("IOError")
       /\ handle' = None
       /\ get_progress' = RNum(0, 1)
       /\ UNCHANGED obsVars
    ]_vars

\* C13 witness: a read has failed in get_next() on an open handle and the
\* error has reached the caller, no on_job_done having been notified.
C13_Witness ==
  /\ IsLocal
  /\ lastOp = "get_next"
  /\ lastArg.name = "IOError"
  /\ lastResult = RRaise("IOError")
  /\ handle = None
  /\ doneNotified = 0

\* C14: get_next() on a local job whose handle is not open raises the
\* invalid-state error (ValueError), notifies no event and changes no field.
C14_GetNextNotOpen ==
  [][(IsLocal /\ lastOp' = "get_next" /\ handle = None) =>
       /\ lastResult' = RRaise("ValueError")
       /\ UNCHANGED <<jobVars, obsVars>>
    ]_vars

\* C15: a notify_listeners call that leaves the list as it was has invoked
\* exactly the registered listeners that implement the event, in registration
\* order.
C15_DispatchInOrder ==
  [][(dispatches' # dispatches /\ listeners' = listeners) =>
       lastDispatch'.called = WithHandler(listeners, lastDispatch'.name)
    ]_vars

RECURSIVE Count(_, _)
\* Occurrences of x in ls.
Count(ls, x) ==
  IF ls = <<>> THEN 0
  ELSE (IF Head(ls) = x THEN 1 ELSE 0) + Count(Tail(ls), x)

\* C20: when handlers register or unregister listeners during a dispatch,
\* every listener that implements the event, was registered when the dispatch
\* began and has not been removed is invoked once per registration.
C20_DispatchUnderMutation ==
  [][(dispatches' # dispatches /\ listeners' # listeners) =>
       \A l \in Listeners :
         (/\ HasHandler(l, lastDispatch'.name)
          /\ Count(listeners, l) > 0
          /\ Count(listeners', l) >= Count(listeners, l))
         => /\ Count(lastDispatch'.called, l) >= Count(listeners, l)
            /\ Count(lastDispatch'.called, l) <= Count(listeners', l)
    ]_vars

RECURSIVE LinesFrom(_, _)
\* The lines of f from offset p on, in file order.
LinesFrom(f, p) ==
  IF p >= Len(f) THEN <<>>
  ELSE <<ReadLine(f, p)>> \o LinesFrom(f, LineEnd(f, p))

\* C17: get_content_generator() yields the lines of the file from its
\* beginning, in file order, and leaves the job (handle, progress, dispatch
\* record) as it was.
C17_ContentGenerator ==
  [][(IsLocal /\ lastOp' = "get_content_generator") =>
       /\ lastResult' = RItems(LinesFrom(file, 0))
       /\ get_progress' = get_progress
       /\ UNCHANGED <<jobVars, obsVars>>
    ]_vars

\* C18: on_job_done is notified to a local job's listeners at most once, and
\* only by a get_next() call that reads end-of-file from an open handle and
\* returns without an error.
C18_DoneAtMostOnce ==
  [][(IsLocal /\ doneNotified' # doneNotified) =>
       /\ doneNotified = 0
       /\ lastOp' = "get_next"
       /\ handle # None
       /\ ReadLine(file, handle[1]) = <<>>
       /\ lastResult'.kind # "raise"
    ]_vars

\* C19: a position delivered by a status callback for the job's file is still
\* last_pos after the next step of process(), and once a file-print-done has
\* been handled no step makes the device job active.
C19_ProcessRace ==
  [][/\ (IsSD /\ lastOp = "on_protocol_sd_status" /\ lastArg.name = Filename
              /\ lastOp' # "on_protocol_sd_status")
          => last_pos' = Some(lastArg.pos)
     /\ (IsSD /\ jobDone) => ~active'
    ]_vars

\* C16: can_process changes no state and returns False on the base class,
\* "the protocol declares this class" on every local file class (and also
\* file streaming on the streamed class), and "the protocol declares this
\* class and is file-aware" on the device-resident class.
C16_CanProcess ==
  [][lastOp' = "can_process" =>
       /\ lastResult' =
            RBool(CASE variant = "Printjob" -> FALSE
                    [] variant = "LocalGcodeStreamjob" ->
                         /\ variant \in supported_jobs
                         /\ "FileStreamingProtocolMixin" \in mixins
                    [] variant = "SDFilePrintjob" ->
                         /\ variant \in supported_jobs
                         /\ "FileAwareProtocolMixin" \in mixins
                    [] OTHER -> variant \in supported_jobs)
       /\ UNCHANGED <<constVars, jobVars, protoVars, obsVars>>
    ]_vars

====
